---- MODULE Spec2Model ----
(***************************************************************************)
(* The analysis ledger of genspark_material_analyzer.py: the shared        *)
(* history file, the per-session Streamlit state, the analysis handler and *)
(* the feedback handler, with load_history_from_aidrive,                   *)
(* save_history_to_aidrive, add_analysis_record and                        *)
(* update_feedback_in_history translated from the source.                  *)
(*                                                                         *)
(* Three specifications share the variables and the operators:             *)
(*   SpecSeq  one handler at a time, each handler one step;                *)
(*   SpecCap  one session inserting HistoryCap + 1 records in a row;       *)
(*   Spec     several sessions whose handlers interleave at every file     *)
(*            access (load, open-for-write, close).                        *)
(***************************************************************************)
EXTENDS Integers, Sequences, FiniteSets, TLC

\* ------------------------------------------------------------- constants

\* len(history) > 100 / history[:100]
HistoryCap == 100

\* Bounds of the model.
NumSessions == 2
SeqTicks == 3
MaxTicks == 2
MaxCalls == 2

Sessions == 1..NumSessions

\* The sidebar's material_code text input: two codes and the empty input.
Codes == {"A", "B"}
CodeInputs == Codes \cup {""}

\* The keys of uploaded_images: nothing uploaded, or a front photograph.
ImageInputs == {{}, {"front"}}

\* The feedback form's quality_grade select box, standing for the expert's
\* inputs.
Grades == {"g1", "g2"}

\* feedback_data = {..., "quality_grade": ..., "feedback_timestamp": now}
Feedback(grade, ts) == [quality_grade |-> grade, feedback_timestamp |-> ts]

\* "feedback": None
None == Feedback("", 0)

\* How HISTORY_FILE answers the process:
\*   ok        exists, opens for reading and for writing
\*   readonly  exists and opens for reading; open(..., 'w') raises
\*   missing   the path does not exist and cannot be created (the drive is
\*             not mounted): exists() is False, open(..., 'w') raises
\*   down      exists, but every open raises
StorageModes == {"ok", "readonly", "missing", "down"}

\* The clock value at the start; earlier records carry timestamps 1..T0.
T0 == HistoryCap
ClockLimit == T0 + MaxTicks
SeqClockLimit == T0 + SeqTicks

\* ----------------------------------------------------------------- state

VARIABLES
    file,      \* HISTORY_FILE: [content, valid, size]; valid = FALSE while
               \* the bytes on disk are not one complete JSON document, size
               \* is how far the bytes on disk reach
    storage,   \* the storage mode
    now,       \* datetime.now()
    mem,       \* st.session_state['analysis_history'] per session (<<>>: unset)
    cur,       \* st.session_state['current_analysis'] per session
    curIdx,    \* where in mem[s] the dict object of cur[s] sits (0: nowhere)
    msg,       \* the handler's last report to the user, per session
    pc,        \* the position of each session's running handler
    hist,      \* the local variable history of the running handler
    rec,       \* the local variable record of the running analysis
    startT,    \* the clock when the running analysis began
    raced,     \* whether another writer touched the file since this session
               \* opened it for writing
    images,    \* images_dict handed to analyze_material_images, as its
               \* (role, image) items in insertion order
    results    \* what the calls of analyze_material_images on images returned,
               \* in call order

vars == <<file, storage, now, mem, cur, curIdx, msg, pc, hist, rec, startT,
          raced, images, results>>

estVars == <<images, results>>

stepVars == <<pc, hist, rec, startT, raced>>

\* "No current_analysis": the empty material code never passes validation.
NoRecord == [material_code |-> "", timestamp |-> 0, feedback |-> None]

\* record = {"timestamp": ..., "material_code": ..., "feedback": None}
NewRecord(code, ts) ==
    [material_code |-> code, timestamp |-> ts, feedback |-> None]

\* A ledger of n earlier analyses, newest first.
Prefill(n) == [i \in 1..n |-> NewRecord("A", n + 1 - i)]

PrefillLens == {HistoryCap - 1}

\* ------------------------------------------------------- pure operators

Key(r) == <<r.material_code, r.timestamp>>

HasKey(h, k) == \E i \in 1..Len(h) : Key(h[i]) = k

CountKey(h, k) == Cardinality({i \in 1..Len(h) : Key(h[i]) = k})

\* Mutant of InputValid: the photographs are not checked.
InputValidCodeOnly(code, imgs) == code # ""

\* How long json.dump's text of a history is, in units in which every record
\* and every feedback payload has the same length.
Size(h) == Len(h) + Cardinality({i \in 1..Len(h) : h[i].feedback # None})

\* HISTORY_FILE holding the complete document of history h.
Document(h) == [content |-> h, valid |-> TRUE, size |-> Size(h)]

\* HISTORY_FILE holding n units of bytes that do not parse as one document.
Garbage(n) == [content |-> <<>>, valid |-> FALSE, size |-> n]

\* if not material_code ... elif not uploaded_images ...
InputValid(code, imgs) == code # "" /\ imgs # {}

\* load_history_from_aidrive: the list returned, and whether it is the
\* session's own list object (the except branch).
load_history_from_aidrive(st, f, m) ==
    IF st = "missing"
    THEN [history |-> <<>>, fromMem |-> FALSE]
    ELSE IF st \in {"ok", "readonly"} /\ f.valid
         THEN [history |-> f.content, fromMem |-> FALSE]
         ELSE [history |-> m, fromMem |-> TRUE]

\* open(HISTORY_FILE, 'w') succeeds
Writable(st) == st = "ok"

\* Mutant of InsertCapped: the truncation is missing.
InsertUncapped(history, record) == <<record>> \o history

\* history.insert(0, record); if len(history) > 100: history = history[:100]
InsertCapped(history, record) ==
    LET h == <<record>> \o history
    IN  IF Len(h) > HistoryCap THEN SubSeq(h, 1, HistoryCap) ELSE h

\* The for loop of update_feedback_in_history: the first matching index.
FirstMatch(history, code, ts) ==
    IF \E i \in 1..Len(history) : Key(history[i]) = <<code, ts>>
    THEN CHOOSE i \in 1..Len(history) :
            /\ Key(history[i]) = <<code, ts>>
            /\ \A j \in 1..(i - 1) : Key(history[j]) # <<code, ts>>
    ELSE 0

\* Mutant of UpdateFeedback: the loop never matches, every attachment takes
\* the fallback insert.
UpdateFeedbackAlwaysInsert(history, code, ts, f, current) ==
    [history |-> <<[current EXCEPT !.feedback = f]>> \o history,
     updated |-> TRUE, matched |-> FALSE]

\* Mutant of UpdateFeedback: no fallback, a miss updates nothing.
UpdateFeedbackMatchOnly(history, code, ts, f, current) ==
    LET i == FirstMatch(history, code, ts)
    IN  IF i > 0
        THEN [history |-> [history EXCEPT ![i].feedback = f],
              updated |-> TRUE, matched |-> TRUE]
        ELSE [history |-> history, updated |-> FALSE, matched |-> FALSE]

\* update_feedback_in_history up to the save: the list to save, whether
\* anything was updated, and whether the loop matched.
UpdateFeedback(history, code, ts, f, current) ==
    LET i == FirstMatch(history, code, ts)
    IN  IF i > 0
        THEN [history |-> [history EXCEPT ![i].feedback = f],
              updated |-> TRUE, matched |-> TRUE]
        ELSE IF current # NoRecord
             THEN [history |-> <<[current EXCEPT !.feedback = f]>> \o history,
                   updated |-> TRUE, matched |-> FALSE]
             ELSE [history |-> history, updated |-> FALSE, matched |-> FALSE]

\* Line 693, st.session_state['current_analysis']['feedback'] = feedback_data,
\* seen through the session's list when it holds the same dict object.
MemAfterStamp(m, idx, f) ==
    IF idx > 0 THEN [m EXCEPT ![idx].feedback = f] ELSE m

\* Whether `history` is the list object the session holds: the load fell back
\* to st.session_state.get('analysis_history', []) and the key was set.
InPlace(m, ld) == ld.fromMem /\ m # <<>>

\* The session's list after the handler mutated `history` in place.
MemInPlace(m, ld, mutated) == IF InPlace(m, ld) THEN mutated ELSE m

\* save_history_to_aidrive's except branch:
\* st.session_state['analysis_history'] = history_data
MemAfterSave(m, history, saved) == IF saved THEN m ELSE history

\* Where the dict object of current_analysis sits in the session's list after
\* update_feedback_in_history: a fallback insert into the session's own list
\* shifts it, a list rebuilt from the file does not hold it.
IdxAfterFeedback(idx, m, ld, u, saved) ==
    IF InPlace(m, ld)
    THEN IF ~u.matched /\ idx > 0 THEN idx + 1 ELSE idx
    ELSE IF u.updated /\ ~saved THEN 0 ELSE idx

\* What the handler tells the user.
AnalysisMsg(saved) == IF saved THEN "analysis_saved" ELSE "analysis_session"

FeedbackMsg(found, saved) ==
    IF ~found THEN "fb_notfound"
    ELSE IF saved THEN "fb_saved" ELSE "fb_session"

\* ---------------------------------------- handlers, each as one step

\* The analysis button, with the storage mode as it is; the handler sleeps,
\* so the clock has advanced by d >= 1 when the record is stamped.
Analyze(s, code, imgs, d) ==
    /\ pc[s] = "idle"
    /\ IF ~InputValid(code, imgs)
       THEN /\ msg' = [msg EXCEPT ![s] = "input_error"]
            /\ UNCHANGED <<file, now, mem, cur, curIdx>>
       ELSE LET record == NewRecord(code, now + d)
                ld == load_history_from_aidrive(storage, file, mem[s])
                history == InsertCapped(ld.history, record)
                saved == Writable(storage)
                m1 == MemInPlace(mem[s], ld, <<record>> \o ld.history)
            IN  /\ now' = now + d
                /\ file' = IF saved THEN Document(history) ELSE file
                /\ mem' = [mem EXCEPT ![s] = MemAfterSave(m1, history, saved)]
                /\ cur' = [cur EXCEPT ![s] = record]
                /\ curIdx' = [curIdx EXCEPT ![s] =
                                IF ~saved \/ InPlace(mem[s], ld) THEN 1 ELSE 0]
                /\ msg' = [msg EXCEPT ![s] = AnalysisMsg(saved)]
    /\ UNCHANGED <<storage, stepVars, estVars>>

\* The feedback form's submit button (the form is shown only with a current
\* analysis), with the storage mode as it is; after a save the handler sleeps
\* (time.sleep(1)) before st.rerun().
Attach(s, grade) ==
    /\ pc[s] = "idle"
    /\ cur[s] # NoRecord
    /\ LET f == Feedback(grade, now)
           current == [cur[s] EXCEPT !.feedback = f]
           m0 == MemAfterStamp(mem[s], curIdx[s], f)
           ld == load_history_from_aidrive(storage, file, m0)
           u == UpdateFeedback(ld.history, current.material_code,
                               current.timestamp, f, current)
           saved == Writable(storage)
           m1 == MemInPlace(m0, ld, u.history)
       IN  /\ cur' = [cur EXCEPT ![s] = current]
           /\ file' = IF u.updated /\ saved THEN Document(u.history)
                                               ELSE file
           /\ mem' = [mem EXCEPT ![s] =
                        IF u.updated THEN MemAfterSave(m1, u.history, saved)
                                     ELSE m1]
           /\ curIdx' = [curIdx EXCEPT ![s] =
                           IdxAfterFeedback(curIdx[s], m0, ld, u, saved)]
           /\ msg' = [msg EXCEPT ![s] = FeedbackMsg(u.updated, saved)]
           /\ now' = IF u.updated THEN now + 1 ELSE now
    /\ UNCHANGED <<storage, stepVars, estVars>>

\* The environment changes how the history file answers.
SetStorage(m) ==
    /\ m # storage
    /\ storage' = m
    /\ UNCHANGED <<file, now, mem, cur, curIdx, msg, stepVars, estVars>>

\* ------------------------- handlers, one step per clock or file access
\* Storage stays "ok" here: every open succeeds, and a load raises only on a
\* file that is not a complete JSON document.

\* The clock advances.
Tick ==
    /\ now < ClockLimit
    /\ now' = now + 1
    /\ UNCHANGED <<file, storage, mem, cur, curIdx, msg, stepVars, estVars>>

\* The analysis button with inputs that pass validation (a rejected input is
\* Analyze's first branch and touches nothing shared): time.sleep(1) begins.
Begin(s, code, imgs) ==
    /\ pc[s] = "idle"
    /\ InputValid(code, imgs)
    /\ pc' = [pc EXCEPT ![s] = "sleep"]
    /\ rec' = [rec EXCEPT ![s] = NewRecord(code, 0)]
    /\ startT' = [startT EXCEPT ![s] = now]
    /\ UNCHANGED <<file, storage, now, mem, cur, curIdx, msg, hist,
                   raced, estVars>>

\* After the sleep: record = {"timestamp": datetime.now().isoformat(), ...}
Stamp(s) ==
    /\ pc[s] = "sleep"
    /\ now > startT[s]
    /\ rec' = [rec EXCEPT ![s].timestamp = now]
    /\ startT' = [startT EXCEPT ![s] = 0]
    /\ pc' = [pc EXCEPT ![s] = "add_load"]
    /\ UNCHANGED <<file, storage, now, mem, cur, curIdx, msg, hist,
                   raced, estVars>>

\* add_analysis_record up to the save: load, insert, truncate.
AddLoad(s) ==
    /\ pc[s] = "add_load"
    /\ LET ld == load_history_from_aidrive(storage, file, mem[s])
       IN  /\ hist' = [hist EXCEPT ![s] = InsertCapped(ld.history, rec[s])]
           /\ mem' = [mem EXCEPT ![s] =
                        MemInPlace(mem[s], ld, <<rec[s]>> \o ld.history)]
           /\ curIdx' = [curIdx EXCEPT ![s] =
                           IF InPlace(mem[s], ld) THEN 1 ELSE 0]
    /\ pc' = [pc EXCEPT ![s] = "add_open"]
    /\ UNCHANGED <<file, storage, now, cur, msg, rec, startT, raced, estVars>>

\* The submit button: feedback_data is built and written into
\* current_analysis.
Submit(s, grade) ==
    /\ pc[s] = "idle"
    /\ cur[s] # NoRecord
    /\ cur' = [cur EXCEPT ![s].feedback = Feedback(grade, now)]
    /\ mem' = [mem EXCEPT ![s] =
                 MemAfterStamp(mem[s], curIdx[s], Feedback(grade, now))]
    /\ pc' = [pc EXCEPT ![s] = "fb_load"]
    /\ UNCHANGED <<file, storage, now, curIdx, msg, hist, rec,
                   startT, raced, estVars>>

\* update_feedback_in_history up to the save: load, match or fallback insert.
FbLoad(s) ==
    /\ pc[s] = "fb_load"
    /\ LET ld == load_history_from_aidrive(storage, file, mem[s])
           u == UpdateFeedback(ld.history, cur[s].material_code,
                               cur[s].timestamp, cur[s].feedback, cur[s])
       IN  /\ hist' = [hist EXCEPT ![s] = u.history]
           /\ mem' = [mem EXCEPT ![s] = MemInPlace(mem[s], ld, u.history)]
           /\ curIdx' = [curIdx EXCEPT ![s] =
                           IdxAfterFeedback(curIdx[s], mem[s], ld, u, TRUE)]
    /\ pc' = [pc EXCEPT ![s] = "fb_open"]
    /\ UNCHANGED <<file, storage, now, cur, msg, rec, startT, raced, estVars>>

\* save_history_to_aidrive, open(HISTORY_FILE, 'w'): the file is truncated.
Open(s) ==
    /\ pc[s] \in {"add_open", "fb_open"}
    /\ file' = Garbage(0)
    /\ raced' = [raced EXCEPT ![s] = FALSE]
    /\ pc' = [pc EXCEPT ![s] = IF pc[s] = "add_open" THEN "add_close"
                                                      ELSE "fb_close"]
    /\ UNCHANGED <<storage, now, mem, cur, curIdx, msg, hist, rec,
                   startT, estVars>>

\* save_history_to_aidrive, json.dump and the close of the with block: the
\* bytes reach the file from offset 0. A writer that had the file open while
\* another one wrote lays its bytes over the other's: the result is its own
\* document, or (intact = FALSE) a mix that is no document; it cannot be its
\* own document when the other's bytes reach further than its own. The
\* handler then reports and, for an analysis, caches the record as
\* current_analysis; its locals are gone.
Close(s, intact) ==
    /\ pc[s] \in {"add_close", "fb_close"}
    /\ ~raced[s] => intact
    /\ intact => Size(hist[s]) >= file.size
    /\ file' = IF intact
               THEN Document(hist[s])
               ELSE Garbage(IF Size(hist[s]) >= file.size THEN Size(hist[s])
                                                          ELSE file.size)
    /\ raced' = [t \in Sessions |->
                    t # s /\ (pc[t] \in {"add_close", "fb_close"} \/ raced[t])]
    /\ IF pc[s] = "add_close"
       THEN /\ cur' = [cur EXCEPT ![s] = rec[s]]
            /\ msg' = [msg EXCEPT ![s] = AnalysisMsg(TRUE)]
            /\ pc' = [pc EXCEPT ![s] = "idle"]
            /\ UNCHANGED startT
       ELSE /\ msg' = [msg EXCEPT ![s] = FeedbackMsg(TRUE, TRUE)]
            /\ pc' = [pc EXCEPT ![s] = "fb_sleep"]
            /\ startT' = [startT EXCEPT ![s] = now]
            /\ UNCHANGED cur
    /\ hist' = [hist EXCEPT ![s] = <<>>]
    /\ rec' = [rec EXCEPT ![s] = NoRecord]
    /\ UNCHANGED <<storage, now, mem, curIdx, estVars>>

\* After a saved feedback: time.sleep(1); st.rerun()
Rerun(s) ==
    /\ pc[s] = "fb_sleep"
    /\ now > startT[s]
    /\ startT' = [startT EXCEPT ![s] = 0]
    /\ pc' = [pc EXCEPT ![s] = "idle"]
    /\ UNCHANGED <<file, storage, now, mem, cur, curIdx, msg, hist,
                   rec, raced, estVars>>

\* ------------------------------------------------------------ estimator
\* Numbers are fixed-point integers: edge_density and thickness_indicator in
\* 1/10000, brightness (standard deviation and mean), roughness, thickness,
\* micro_roughness and uniformity in 1/100, touch_score in 1/10; density,
\* gloss, weight, texture_var, flexibility and pixel values are whole numbers.

Min(a, b) == IF a <= b THEN a ELSE b

\* Python's round(n / d, ...) to the grid of the model's unit: to the nearest,
\* a tie to the even neighbour.
RoundHalfEven(n, d) ==
    LET q == n \div d
        r == n % d
    IN  IF 2 * r < d THEN q
        ELSE IF 2 * r > d THEN q + 1
        ELSE IF q % 2 = 0 THEN q ELSE q + 1

\* The if-blocks of analyze_material_images, in the order of the code.
RoleOrder == <<"front", "side", "macro", "drape", "back">>

\* "role in images_dict" and images_dict[role]
Has(imgs, role) == \E i \in 1..Len(imgs) : imgs[i].role = role

Get(imgs, role) ==
    imgs[CHOOSE i \in 1..Len(imgs) : imgs[i].role = role].image

\* analyze_front_image, from the features of the grayscale image (f holds
\* edge_density, brightness_std, texture_var and the mean brightness that
\* line 174 takes from the same image).
analyze_front_image(f) ==
    [density        |-> 85 + (Min(f.edge_density * 3, 3000) \div 100),
     gloss          |-> 20 + (Min(f.brightness_std * 8, 40000) \div 1000),
     roughness      |-> 150 + RoundHalfEven(Min(f.texture_var * 8, 30000), 100),
     edge_density   |-> f.edge_density,
     brightness_std |-> f.brightness_std,
     texture_var    |-> f.texture_var]

\* analyze_side_image, from thickness_indicator.
analyze_side_image(f) ==
    [thickness |-> 30 + RoundHalfEven(Min(f.thickness_indicator * 3, 3000), 100),
     thickness_indicator |-> f.thickness_indicator]

\* A macro image is one whose every 5x5 window holds k pixels of grey level a
\* and 25 - k of grey level b (the image's interior; gray is a uint8 array).

\* x ** 2 on a uint8 array
Sq8(x) == (x * x) % 256

\* cv2.blur over a 5x5 window of a uint8 image: the mean of the 25 values,
\* rounded to a grey level (25 is odd: no ties).
Blur(sum) == (2 * sum + 25) \div 50

\* variance = sqr_mean - mean ** 2, all three uint8 arrays.
LocalVariance(w) ==
    LET mean == Blur(w.k * w.a + (25 - w.k) * w.b)
        sqr_mean == Blur(w.k * Sq8(w.a) + (25 - w.k) * Sq8(w.b))
    IN  (sqr_mean - Sq8(mean)) % 256

\* np.sqrt of a value 0..255, to the nearest 1/100.
Sqrt100(v) ==
    CHOOSE r \in 0..1600 :
        /\ 40000 * v < (2 * r + 1) * (2 * r + 1)
        /\ r > 0 => (2 * r - 1) * (2 * r - 1) <= 40000 * v

\* analyze_macro_image: np.maximum(variance, 0) changes nothing in uint8; every
\* pixel has the same local_std, which is their mean.
analyze_macro_image(w) ==
    LET micro_roughness == Sqrt100(LocalVariance(w))
    IN  [micro_roughness      |-> micro_roughness,
         roughness_correction |-> RoundHalfEven(micro_roughness * 5, 100)]

\* analyze_drape_image, from the number of Hough segments and the mean
\* brightness.
analyze_drape_image(f) ==
    [flexibility    |-> f.flexibility,
     touch_score    |->
         Min(RoundHalfEven(65000 + Min(f.flexibility * 100, 20000)
                                 + f.avg_brightness, 1000), 95),
     avg_brightness |-> f.avg_brightness]

\* analyze_back_image with the cap missing: 100 - std, kept within 0..100.
BackUniformityClamped(f) ==
    [back_uniformity |-> IF f.brightness_std > 10000 THEN 0
                         ELSE 10000 - f.brightness_std]

\* analyze_back_image, from the brightness standard deviation.
analyze_back_image(f) ==
    [back_uniformity |-> 10000 - Min(f.brightness_std, 5000)]

\* results as analyze_material_images initialises it.
Defaults ==
    [density |-> 100, gloss |-> 40, roughness |-> 300, weight |-> 180,
     thickness |-> 45, touch_score |-> 75, analysis_details |-> <<>>]

\* results["analysis_details"][role] = d: a dict keeps insertion order.
WithDetail(res, role, d) ==
    [res EXCEPT !.analysis_details = Append(@, [role |-> role, detail |-> d])]

\* The macro block without its cap.
MacroRoughnessUncapped(roughness, correction) == roughness + correction

\* results["roughness"] = min(round(roughness + correction, 2), 4.5)
MacroRoughness(roughness, correction) == Min(roughness + correction, 450)

\* One if-block of analyze_material_images.
Block(res, imgs, role) ==
    IF ~Has(imgs, role) THEN res
    ELSE LET f == Get(imgs, role) IN
    CASE role = "front" ->
           LET r == analyze_front_image(f)
           IN  WithDetail(
                 [res EXCEPT !.density = r.density,
                             !.gloss = r.gloss,
                             !.roughness = r.roughness,
                             !.weight = 140 + (r.density - 85) * 2
                                  + (((25500 - f.avg_brightness) * 2)
                                        \div 1000)],
                 role,
                 [edge_density   |-> r.edge_density,
                  brightness_std |-> r.brightness_std,
                  texture_var    |-> r.texture_var])
      [] role = "side" ->
           LET r == analyze_side_image(f)
           IN  WithDetail([res EXCEPT !.thickness = r.thickness], role,
                          [thickness_indicator |-> r.thickness_indicator])
      [] role = "macro" ->
           LET r == analyze_macro_image(f)
           IN  WithDetail(
                 [res EXCEPT !.roughness =
                     MacroRoughness(res.roughness, r.roughness_correction)],
                 role,
                 [micro_roughness      |-> r.micro_roughness,
                  roughness_correction |-> r.roughness_correction])
      [] role = "drape" ->
           LET r == analyze_drape_image(f)
           IN  WithDetail([res EXCEPT !.touch_score = r.touch_score], role,
                          [flexibility    |-> r.flexibility,
                           avg_brightness |-> r.avg_brightness])
      [] role = "back" ->
           LET r == analyze_back_image(f)
           IN  WithDetail(res, role, [uniformity |-> r.back_uniformity])

\* The blocks run in the order the images were supplied.
UploadOrder(imgs) == [i \in 1..Len(imgs) |-> imgs[i].role]

\* The blocks run in the order of the code, whatever the dict's order.
BlockOrder(imgs) == RoleOrder

RECURSIVE RunBlocks(_, _, _)
RunBlocks(res, imgs, order) ==
    IF order = <<>> THEN res
    ELSE RunBlocks(Block(res, imgs, Head(order)), imgs, Tail(order))

analyze_material_images(imgs) == RunBlocks(Defaults, imgs, BlockOrder(imgs))

\* The images a caller can hand over, as features of their pixels.
FrontImages ==
    {[edge_density |-> 0, brightness_std |-> 0, texture_var |-> 0,
      avg_brightness |-> 25500],
     [edge_density |-> 456, brightness_std |-> 2537, texture_var |-> 1234,
      avg_brightness |-> 12750],
     [edge_density |-> 10000, brightness_std |-> 12750,
      texture_var |-> 1000000, avg_brightness |-> 0]}

SideImages ==
    {[thickness_indicator |-> 0], [thickness_indicator |-> 550],
     [thickness_indicator |-> 9990]}

MacroImages ==
    {[a |-> 200, b |-> 200, k |-> 25], [a |-> 10, b |-> 6, k |-> 12],
     [a |-> 16, b |-> 0, k |-> 12], [a |-> 255, b |-> 0, k |-> 12]}

DrapeImages ==
    {[flexibility |-> 0, avg_brightness |-> 0],
     [flexibility |-> 37, avg_brightness |-> 12750],
     [flexibility |-> 100000, avg_brightness |-> 25500]}

BackImages ==
    {[brightness_std |-> 0], [brightness_std |-> 2550],
     [brightness_std |-> 7525], [brightness_std |-> 12750]}

\* No image for a role.
Absent == [absent |-> TRUE]

\* Every non-empty images_dict over the given images, roles in RoleOrder.
Uploads(F, S, M, D, B) ==
    { SelectSeq(<<[role |-> "front", image |-> f],
                  [role |-> "side", image |-> s],
                  [role |-> "macro", image |-> m],
                  [role |-> "drape", image |-> d],
                  [role |-> "back", image |-> b]>>,
                LAMBDA x : x.image # Absent) :
        f \in F \cup {Absent}, s \in S \cup {Absent}, m \in M \cup {Absent},
        d \in D \cup {Absent}, b \in B \cup {Absent} } \ {<<>>}

\* analysis_results = analyze_material_images(uploaded_images)
Estimate ==
    /\ Len(results) < MaxCalls
    /\ results' = Append(results, analyze_material_images(images))
    /\ UNCHANGED <<file, storage, now, mem, cur, curIdx, msg, stepVars,
                   images>>

\* ------------------------------------------------------- specifications

InitWith(lens) ==
    /\ \E n \in lens : file = Document(Prefill(n))
    /\ storage = "ok"
    /\ now = T0
    /\ mem = [s \in Sessions |-> <<>>]
    /\ cur = [s \in Sessions |-> NoRecord]
    /\ curIdx = [s \in Sessions |-> 0]
    /\ msg = [s \in Sessions |-> "none"]
    /\ pc = [s \in Sessions |-> "idle"]
    /\ hist = [s \in Sessions |-> <<>>]
    /\ rec = [s \in Sessions |-> NoRecord]
    /\ startT = [s \in Sessions |-> 0]
    /\ raced = [s \in Sessions |-> FALSE]

\* One session, one handler at a time, storage failing and recovering.
User == 1

\* No estimate is under way.
NoEstimate == images = <<>> /\ results = <<>>

InitSeq == InitWith(PrefillLens) /\ NoEstimate

NextSeq ==
    \/ \E code \in CodeInputs, imgs \in ImageInputs :
          /\ InputValid(code, imgs) => now < SeqClockLimit
          /\ Analyze(User, code, imgs, 1)
    \/ \E grade \in Grades :
          /\ now < SeqClockLimit
          /\ Attach(User, grade)
    \/ \E m \in StorageModes : SetStorage(m)

SpecSeq == InitSeq /\ [][NextSeq]_vars

\* One session inserting HistoryCap + 1 records in a row into a ledger of any
\* length up to HistoryCap, storage available.
NumInserts == HistoryCap + 1

InitCap == InitWith(0..HistoryCap) /\ NoEstimate

NextCap ==
    /\ now < T0 + NumInserts
    /\ Analyze(User, "A", {"front"}, 1)

SpecCap == InitCap /\ [][NextCap]_vars

\* Several sessions, interleaved at every clock and file access.
Init == InitWith(PrefillLens) /\ NoEstimate

Next ==
    \/ Tick
    \/ \E s \in Sessions, code \in CodeInputs, imgs \in ImageInputs :
          Begin(s, code, imgs)
    \/ \E s \in Sessions : Stamp(s)
    \/ \E s \in Sessions : AddLoad(s)
    \/ \E s \in Sessions, grade \in Grades : Submit(s, grade)
    \/ \E s \in Sessions : FbLoad(s)
    \/ \E s \in Sessions : Open(s)
    \/ \E s \in Sessions, intact \in BOOLEAN : Close(s, intact)
    \/ \E s \in Sessions : Rerun(s)

Spec == Init /\ [][Next]_vars

\* The caller hands over the same images with two neighbours of the dict
\* swapped: another insertion order of the same mapping.
Reorder(i) ==
    /\ i \in 1..(Len(images) - 1)
    /\ images' = [images EXCEPT ![i] = images[i + 1], ![i + 1] = images[i]]
    /\ UNCHANGED <<file, storage, now, mem, cur, curIdx, msg, stepVars,
                   results>>

\* The estimator alone, on every combination of images.
InitEst ==
    /\ InitWith(PrefillLens)
    /\ images \in Uploads(FrontImages, SideImages, MacroImages, DrapeImages,
                          BackImages)
    /\ results = <<>>

NextEst == Estimate

SpecEst == InitEst /\ [][NextEst]_vars

\* The estimator called again on the same images, supplied in any order,
\* while the session analyses, the clock advances and the storage fails and
\* recovers in between.
DetImages ==
    Uploads({[edge_density |-> 456, brightness_std |-> 2537,
              texture_var |-> 1234, avg_brightness |-> 12750]},
            {[thickness_indicator |-> 550]},
            {[a |-> 10, b |-> 6, k |-> 12]},
            {[flexibility |-> 37, avg_brightness |-> 12750]},
            {[brightness_std |-> 2550]})

InitDet ==
    /\ InitWith(PrefillLens)
    /\ images \in DetImages
    /\ results = <<>>

NextDet ==
    \/ Estimate
    \/ \E i \in 1..Len(RoleOrder) : Reorder(i)
    \/ /\ now < ClockLimit
       /\ Analyze(User, "A", {"front"}, 1)
    \/ \E m \in {"ok", "readonly"} : SetStorage(m)

SpecDet == InitDet /\ [][NextDet]_vars

\* ----------------------------------------------------------------- claims

\* The ledger as a reader finds it when the file is a complete document.
Ledger == file.content

\* No two positions of h carry the same (material_code, timestamp).
UniqueKeys(h) ==
    \A i, j \in 1..Len(h) : Key(h[i]) = Key(h[j]) => i = j

\* Capacity can have evicted r: the ledger is full and holds nothing stamped
\* before r.
EvictedByCapacity(r) ==
    /\ Len(Ledger) >= HistoryCap
    /\ \A i \in 1..Len(Ledger) : Ledger[i].timestamp >= r.timestamp

\* C1: after HistoryCap + 1 = 101 inserts in a row by one session into a ledger
\* of any length up to 100 (in SpecCap every step is one insert and advances
\* the clock by one, so the k-th insert is stamped T0 + k), the ledger holds
\* exactly 100 records: the last 100 inserted, the last one first, and the
\* first of the 101 is gone.
C1_CapacityAfter101 ==
    now = T0 + NumInserts =>
        /\ file.valid
        /\ Len(Ledger) = HistoryCap
        /\ \A i \in 1..HistoryCap : Ledger[i] = NewRecord("A", now + 1 - i)
        /\ ~HasKey(Ledger, <<"A", T0 + 1>>)

C1_Witness ==
    /\ now = T0 + NumInserts
    /\ msg[User] = "analysis_saved"
    /\ Len(Ledger) = HistoryCap
    /\ Ledger[1] = cur[User]

\* C2 as claimed: whatever inserts and feedback attachments ran, fallback
\* re-inserts included, the persisted ledger holds at most 100 records.
C2_Original == file.valid => Len(Ledger) <= HistoryCap

\* C3: a feedback attachment for the current analysis that follows an earlier
\* one (current_analysis already bears feedback) and finds the key in the
\* ledger leaves exactly one record with that key, bearing the new payload, at
\* an unchanged ledger length, every other record as it was, and is reported
\* as saved.
C3_ReattachOverwrites ==
    [][\A grade \in Grades :
         ( /\ Attach(User, grade)
           /\ storage = "ok" /\ file.valid
           /\ cur[User].feedback # None
           /\ HasKey(Ledger, Key(cur[User])) )
         => /\ file'.valid
            /\ Len(file'.content) = Len(Ledger)
            /\ CountKey(file'.content, Key(cur[User])) = 1
            /\ \A i \in 1..Len(Ledger) :
                  file'.content[i] =
                     IF Key(Ledger[i]) = Key(cur[User])
                     THEN [Ledger[i] EXCEPT !.feedback = Feedback(grade, now)]
                     ELSE Ledger[i]
            /\ msg'[User] = "fb_saved"]_vars

\* A second attachment has run: the ledger's record for the current analysis
\* bears a payload stamped after the analysis, and only an earlier attachment
\* moves the clock between an analysis and the attachment of its feedback.
C3_Witness ==
    /\ file.valid
    /\ msg[User] = "fb_saved"
    /\ cur[User].timestamp > T0
    /\ CountKey(Ledger, Key(cur[User])) = 1
    /\ \E i \in 1..Len(Ledger) :
          /\ Key(Ledger[i]) = Key(cur[User])
          /\ Ledger[i].feedback = cur[User].feedback
          /\ Ledger[i].feedback.feedback_timestamp > cur[User].timestamp

\* C4: a feedback attachment whose key is not in the ledger puts exactly one
\* new record, the cached current analysis bearing the payload, at the front
\* of the otherwise unchanged ledger and reports the feedback as attached and
\* saved.
C4_FallbackInsert ==
    [][\A grade \in Grades :
         ( /\ Attach(User, grade)
           /\ storage = "ok" /\ file.valid
           /\ ~HasKey(Ledger, Key(cur[User])) )
         => /\ file'.valid
            /\ file'.content =
                 <<[cur[User] EXCEPT !.feedback = Feedback(grade, now)]>>
                    \o Ledger
            /\ msg'[User] = "fb_saved"]_vars

\* The fallback insert has run: only it takes the ledger past HistoryCap.
C4_Witness ==
    /\ file.valid
    /\ msg[User] = "fb_saved"
    /\ Len(Ledger) = HistoryCap + 1
    /\ Ledger[1] = cur[User]
    /\ Ledger[1].feedback # None

\* C5 as claimed: whenever a session loads the history, the file is a complete
\* document (the ledger before or after a write), never the truncated or
\* half-written file of a write in progress.
C5_Original ==
    [][\A s \in Sessions : (AddLoad(s) \/ FbLoad(s)) => file.valid]_vars

\* No other session has analysed, or is analysing, under the key of s's
\* current analysis.
OwnKey(s) ==
    \A t \in Sessions \ {s} :
        Key(cur[t]) # Key(cur[s]) /\ Key(rec[t]) # Key(cur[s])

\* C6 as claimed: a record whose insert was reported as saved is in the shared
\* ledger, unless capacity has evicted it (stated for a key no other session
\* uses, whenever the file is a complete document).
C6_Original ==
    \A s \in Sessions :
        (file.valid /\ msg[s] = "analysis_saved" /\ OwnKey(s))
        => (HasKey(Ledger, Key(cur[s])) \/ EvictedByCapacity(cur[s]))

\* C7 as claimed: once feedback was reported as attached and saved, the shared
\* ledger holds a record with that key bearing feedback, unless capacity has
\* evicted it (stated for a key no other session uses, whenever the file is a
\* complete document).
C7_Original ==
    \A s \in Sessions :
        (file.valid /\ msg[s] = "fb_saved" /\ OwnKey(s))
        => \/ \E i \in 1..Len(Ledger) :
                 /\ Key(Ledger[i]) = Key(cur[s])
                 /\ Ledger[i].feedback # None
           \/ EvictedByCapacity(cur[s])

\* C8 as claimed: after an analysis that could not be written to the shared
\* file and was reported as not shared, the session's in-memory ledger holds
\* the record, and while storage stays unavailable a ledger read returns that
\* in-memory ledger.
C8_Original ==
    (msg[User] = "analysis_session" /\ storage # "ok")
    => /\ HasKey(mem[User], Key(cur[User]))
       /\ load_history_from_aidrive(storage, file, mem[User]).history
             = mem[User]

\* C9: an analysis triggered with an empty material code or without any
\* photograph signals an input error and changes nothing else: the file, the
\* in-memory ledger and the cached current analysis stay as they were.
C9_InputErrorChangesNothing ==
    [][\A code \in CodeInputs, imgs \in ImageInputs :
         (Analyze(User, code, imgs, 1) /\ (code = "" \/ imgs = {}))
         => /\ msg'[User] = "input_error"
            /\ UNCHANGED <<file, storage, now, mem, cur, curIdx>>]_vars

C9_Witness ==
    /\ msg[User] = "input_error"
    /\ cur[User] # NoRecord
    /\ mem[User] # <<>>
    /\ Len(Ledger) = HistoryCap

\* C10 as claimed: no two ledger records share (material_code, timestamp).
C10_Original == file.valid => UniqueKeys(Ledger)

\* C11: whatever non-empty set of roles is supplied and whatever the features
\* of the images, every estimate analyze_material_images returns has gloss in
\* 20..60, roughness in 1.5..4.5, touch_score in 0..9.5, density at least 85
\* and, when a side image is supplied, thickness in 0.3..0.6.
C11_EstimateRanges ==
    \A i \in 1..Len(results) :
        /\ results[i].gloss >= 20 /\ results[i].gloss <= 60
        /\ results[i].roughness >= 150 /\ results[i].roughness <= 450
        /\ results[i].touch_score >= 0 /\ results[i].touch_score <= 95
        /\ results[i].density >= 85
        /\ Has(images, "side")
              => results[i].thickness >= 30 /\ results[i].thickness <= 60

\* An estimate from front, side, macro and drape images in which the caps
\* act: the macro correction meets a front roughness already at 4.5.
C11_Witness ==
    /\ results # <<>>
    /\ Has(images, "front") /\ Has(images, "side")
    /\ Has(images, "macro") /\ Has(images, "drape")
    /\ analyze_front_image(Get(images, "front")).roughness = 450
    /\ analyze_macro_image(Get(images, "macro")).roughness_correction > 0
    /\ results[1].roughness = 450
    /\ results[1].gloss = 60
    /\ results[1].touch_score = 95
    /\ results[1].thickness = 60

\* C12: every call of analyze_material_images on the same role-to-image
\* mapping returns the same property values and the same diagnostics, in
\* whatever order the roles were supplied and whatever the ledger, the
\* session state and the clock were at the call.
C12_SameImagesSameEstimate ==
    \A i, j \in 1..Len(results) : results[i] = results[j]

\* Two calls have returned; the macro image now precedes the front image in
\* the dict, and an analysis that could not be shared has meanwhile moved the
\* clock and filled the session's in-memory ledger.
C12_Witness ==
    /\ Len(results) = 2
    /\ \E i, j \in 1..Len(images) :
          i < j /\ images[i].role = "macro" /\ images[j].role = "front"
    /\ now > T0
    /\ mem[User] # <<>>
    /\ results[2].roughness
          = analyze_front_image(Get(images, "front")).roughness
            + analyze_macro_image(Get(images, "macro")).roughness_correction

\* results["analysis_details"][role]
Detail(res, role) ==
    LET ds == res.analysis_details
    IN  ds[CHOOSE i \in 1..Len(ds) : ds[i].role = role].detail

\* C13 as claimed: for a back image the reported uniformity is 100 minus the
\* brightness standard deviation, kept within 0..100, for every standard
\* deviation from 0 to 127.5.
C13_Original ==
    \A i \in 1..Len(results) :
        Has(images, "back") =>
            LET std == Get(images, "back").brightness_std
            IN  Detail(results[i], "back").uniformity
                   = IF std > 10000 THEN 0 ELSE 10000 - std

\* C13 as amended: for a back image the reported uniformity is 100 minus the
\* brightness standard deviation while that is at most 50, and 50 for every
\* larger standard deviation.
C13_UniformityFloor50 ==
    \A i \in 1..Len(results) :
        Has(images, "back") =>
            LET std == Get(images, "back").brightness_std
            IN  Detail(results[i], "back").uniformity
                   = IF std <= 5000 THEN 10000 - std ELSE 5000

\* An estimate for a back image whose standard deviation is above 50.
C13_Witness ==
    /\ results # <<>>
    /\ Has(images, "back")
    /\ Get(images, "back").brightness_std > 5000
    /\ Detail(results[1], "back").uniformity = 5000

\* C14 as claimed: whatever inserts and feedback attachments the sessions
\* ran, the ledger is ordered newest first by creation timestamp: no record
\* sits ahead of a record with a later timestamp.
C14_Original ==
    file.valid =>
        \A i, j \in 1..Len(Ledger) :
            i < j => Ledger[i].timestamp >= Ledger[j].timestamp

\* The local variance of a macro image's window with the squares and the
\* difference taken in unbounded integers: (window mean of squared pixels)
\* minus (window mean) squared, the means as cv2.blur rounds them, and
\* np.maximum(variance, 0).
TrueVariance(w) ==
    LET mean == Blur(w.k * w.a + (25 - w.k) * w.b)
        sqr_mean == Blur(w.k * w.a * w.a + (25 - w.k) * w.b * w.b)
    IN  IF sqr_mean >= mean * mean THEN sqr_mean - mean * mean ELSE 0

\* C15 as claimed: for a macro image the squares and the difference never
\* wrap around modulo 256, so the reported micro-roughness is the square root
\* of the window's true variance (a variance above 255 has a square root of
\* 16 or more, which Sqrt100 never returns).
C15_Original ==
    \A i \in 1..Len(results) :
        Has(images, "macro") =>
            LET v == TrueVariance(Get(images, "macro"))
            IN  /\ v <= 255
                /\ Detail(results[i], "macro").micro_roughness = Sqrt100(v)
====
